---- MODULE Spec2Model ----
(***************************************************************************)
(* Model of fractal_tree.py: the recursive generator FractalTree.draw_tree *)
(* (run as an explicit call stack), FractalTree.draw_structures, and the   *)
(* two shells MatplotlibApp.run / TkinterApp.run as started by main().     *)
(*                                                                         *)
(* Numbers.  Python floats are modelled in fixed point:                    *)
(*   lengths and coordinates  in units of 1/Scale                          *)
(*   angles in radians        in units of 1/RadScale rad                   *)
(*   angles in degrees        as whole degrees                             *)
(*   factor                   in units of 1/FactorDen                      *)
(*   cos / sin                in units of 1/TrigScale, tabulated every 15  *)
(*                            degrees (the heading is rounded to the       *)
(*                            nearest table entry)                         *)
(*   t = current_depth/depth  in units of 1/TScale                         *)
(*   linewidth                in units of 1/10                             *)
(***************************************************************************)
EXTENDS Integers, Sequences, FiniteSets, TLC

\* ---------------------------------------------------------------- bounds
MaxDepth == 5          \* largest depth given on the command line or set on a control
RecursionLimit == 8    \* Python's recursion limit, counted in draw_tree frames

\* ------------------------------------------------------ fixed-point units
Scale == 10^6
RadScale == 10^5
TrigScale == 10^3
TScale == 10^3
FactorDen == 5 + 5

\* ------------------------------------------------------ program constants
PiE5 == 314159         \* np.pi, in 1/RadScale rad
DepthMin == 1          \* Slider / Scale ranges
DepthMax == 12
AngleMin == 0
AngleMax == 90
FactorMin == 5         \* 0.5
FactorMax == 9         \* 0.9

TwoPi == 2 * PiE5
HalfPi == PiE5 \div 2  \* np.pi / 2, the default heading

\* np.deg2rad / np.rad2deg
deg2rad(a) == (a * PiE5) \div 180
rad2deg(r) == (r * 180 + PiE5 \div 2) \div PiE5

\* cosine table, one entry per 15 degrees, 0 .. 345
CosTab ==
  << 1000, 966, 866, 707, 500, 259, 0, -259, -500, -707, -866, -966,
     -1000, -966, -866, -707, -500, -259, 0, 259, 500, 707, 866, 966 >>

TabIdx(r) == (((r % TwoPi) * 24 + PiE5) \div TwoPi) % 24
Cos(r) == CosTab[TabIdx(r) + 1]
Sin(r) == CosTab[((TabIdx(r) + 18) % 24) + 1]

\* ------------------------------------------------------------ input sets
CliModes == {"plt", "tk"}
CliDepths == (0 - 1) .. MaxDepth
CliAngles == {30, 100}
CliFactors == {3, 7}
ControlDepths == {d \in DepthMin .. DepthMax : d <= MaxDepth}
ControlAngles == {AngleMin, 45, AngleMax}
ControlFactors == {FactorMin, FactorMax}
ControlNames == {"Depth", "Angle", "Factor"}

Unset == [Depth |-> 0, Angle |-> 0, Factor |-> 0]

VARIABLES
  mode,         \* args.mode
  save,         \* args.save is given
  self_depth,   \* self.depth
  self_angle,   \* self.angle (radians)
  self_factor,  \* self.factor
  sliders,      \* MatplotlibApp.run: the three Slider values
  params,       \* TkinterApp.run: the three Tk variables
  anim,         \* self.anim exists: the animation loop was started
  saved,        \* plt.savefig was called
  pc,           \* position of the shell
  dpc,          \* position inside draw_structures: "idle", "tree", "finish"
  stack,        \* the draw_tree call stack, innermost frame last
  plots,        \* the lines held by ax, in the order ax.plot added them
  emitted       \* number of ax.plot calls since the top-level draw_tree call

vars == << mode, save, self_depth, self_angle, self_factor, sliders, params,
           anim, saved, pc, dpc, stack, plots, emitted >>

\* ------------------------------------------------------------- draw_tree
\* variant: the recursion stops one level early
IsBaseCaseOneEarly(current_depth) == current_depth <= 1

\* `if current_depth == 0: return`
IsBaseCase(current_depth) == current_depth = 0

\* variant: the fraction is taken the wrong way round
ColorFractionInverted(current_depth, depth) == (depth * TScale) \div current_depth

\* t = current_depth / self.depth
ColorFraction(current_depth, depth) == (current_depth * TScale) \div depth

\* linewidth = 0.5 + current_depth * 0.3
LineWidth(current_depth) == 5 + current_depth * 3

\* x2 = x + length * np.cos(current_angle); y2 likewise with np.sin
EndX(x, length, current_angle) == x + (length * Cos(current_angle)) \div TrigScale
EndY(y, length, current_angle) == y + (length * Sin(current_angle)) \div TrigScale

\* variant: the children keep the parent's length
NewLengthUnshrunk(length, factor) == length

\* new_length = length * self.factor
NewLength(length, factor) == (length * factor) \div FactorDen

\* variant: the first recursive call turns the other way
LeftAngleMinus(current_angle, angle) == current_angle - angle

\* the headings of the two recursive calls
LeftAngle(current_angle, angle) == current_angle + angle
RightAngle(current_angle, angle) == current_angle - angle

\* the depth passed to both recursive calls
ChildDepth(current_depth) == current_depth - 1

\* A frame of draw_tree.  path identifies the call: the empty path is the
\* top-level call, Append(p, 0) the first and Append(p, 1) the second
\* recursive call made by call p.
Frame(x, y, length, angle, depth, path) ==
  [ x |-> x, y |-> y, length |-> length, angle |-> angle, depth |-> depth,
    path |-> path, at |-> "entry", x2 |-> x, y2 |-> y, new_length |-> length ]

\* self.draw_tree(ax): x=0, y=0, length=1, angle=None, depth=None
TopFrame(depth) == Frame(0, 0, Scale, HalfPi, depth, << >>)

\* variant: the children start at the parent's start point
ChildFrameFromStart(f, side, angle) ==
  Frame(f.x, f.y, f.new_length,
        IF side = 0 THEN LeftAngle(f.angle, angle) ELSE RightAngle(f.angle, angle),
        ChildDepth(f.depth), Append(f.path, side))

\* self.draw_tree(ax, x2, y2, new_length, current_angle +/- self.angle, current_depth - 1)
ChildFrame(f, side, angle) ==
  Frame(f.x2, f.y2, f.new_length,
        IF side = 0 THEN LeftAngle(f.angle, angle) ELSE RightAngle(f.angle, angle),
        ChildDepth(f.depth), Append(f.path, side))

\* what ax.plot([x, x2], [y, y2], color=cmap(t), linewidth=linewidth) adds,
\* together with the call that added it (path, depth, heading, length)
Segment(f, x2, y2, t) ==
  [ x |-> f.x, y |-> f.y, x2 |-> x2, y2 |-> y2, t |-> t,
    linewidth |-> LineWidth(f.depth),
    path |-> f.path, depth |-> f.depth, heading |-> f.angle, length |-> f.length ]

Top == stack[Len(stack)]
Pop == SubSeq(stack, 1, Len(stack) - 1)
ReplaceTop(f) == [stack EXCEPT ![Len(stack)] = f]

\* a call returns; when the top-level call returns draw_structures goes on
ReturnTo(rest) ==
  /\ stack' = rest
  /\ dpc' = IF rest = << >> THEN "finish" ELSE "tree"

\* lines 36-39: the call with current_depth == 0 returns at once
DrawTreeBase ==
  /\ dpc = "tree"
  /\ stack # << >>
  /\ Top.at = "entry"
  /\ IsBaseCase(Top.depth)
  /\ ReturnTo(Pop)
  /\ UNCHANGED << mode, save, self_depth, self_angle, self_factor, sliders,
                  params, anim, saved, pc, plots, emitted >>

\* lines 40-49: plot the branch, then make the first recursive call
DrawTreeBranch ==
  /\ dpc = "tree"
  /\ stack # << >>
  /\ Top.at = "entry"
  /\ ~IsBaseCase(Top.depth)
  /\ Len(stack) < RecursionLimit
  /\ LET f == Top
         x2 == EndX(f.x, f.length, f.angle)
         y2 == EndY(f.y, f.length, f.angle)
         t == ColorFraction(f.depth, self_depth)
         g == [f EXCEPT !.at = "left", !.x2 = x2, !.y2 = y2,
                        !.new_length = NewLength(f.length, self_factor)]
     IN /\ plots' = Append(plots, Segment(f, x2, y2, t))
        /\ emitted' = emitted + 1
        /\ stack' = Append(ReplaceTop(g), ChildFrame(g, 0, self_angle))
  /\ UNCHANGED << mode, save, self_depth, self_angle, self_factor, sliders,
                  params, anim, saved, pc, dpc >>

\* line 50: the first recursive call returned, make the second
DrawTreeCallRight ==
  /\ dpc = "tree"
  /\ stack # << >>
  /\ Top.at = "left"
  /\ stack' = Append(ReplaceTop([Top EXCEPT !.at = "right"]),
                     ChildFrame(Top, 1, self_angle))
  /\ UNCHANGED << mode, save, self_depth, self_angle, self_factor, sliders,
                  params, anim, saved, pc, dpc, plots, emitted >>

\* end of the body: the second recursive call returned
DrawTreeReturn ==
  /\ dpc = "tree"
  /\ stack # << >>
  /\ Top.at = "right"
  /\ ReturnTo(Pop)
  /\ UNCHANGED << mode, save, self_depth, self_angle, self_factor, sliders,
                  params, anim, saved, pc, plots, emitted >>

\* The recursion limit is hit at line 49: the branch is plotted, the call
\* raises RecursionError and the exception unwinds every draw_tree frame and
\* draw_structures.  Outside the event loop it ends the process; inside the
\* loop the GUI backend either lets it end the process or reports it and
\* carries on.
RaiseRecursionError ==
  /\ dpc = "tree"
  /\ stack # << >>
  /\ Top.at = "entry"
  /\ ~IsBaseCase(Top.depth)
  /\ Len(stack) >= RecursionLimit
  /\ LET f == Top
     IN plots' = Append(plots, Segment(f, EndX(f.x, f.length, f.angle),
                                       EndY(f.y, f.length, f.angle),
                                       ColorFraction(f.depth, self_depth)))
  /\ emitted' = emitted + 1
  /\ stack' = << >>
  /\ dpc' = "idle"
  /\ pc' \in (IF pc = "tick" THEN {"crashed", "mainloop"} ELSE {"crashed"})
  /\ UNCHANGED << mode, save, self_depth, self_angle, self_factor, sliders,
                  params, anim, saved >>

\* ------------------------------------------------------- draw_structures
\* variant: the axes are not cleared
ClearAxesKeep(lines) == lines

\* ax.clear()
ClearAxes(lines) == << >>

\* lines 53-59: clear the axes, style them, call self.draw_tree(ax)
DrawStructuresBegin ==
  /\ dpc = "idle"
  /\ plots' = ClearAxes(plots)
  /\ emitted' = 0
  /\ stack' = << TopFrame(self_depth) >>
  /\ dpc' = "tree"

\* lines 60-61: draw_tree returned; set aspect and title, return to the caller
DrawStructuresReturn ==
  /\ dpc = "finish"
  /\ dpc' = "idle"
  /\ pc' = CASE pc = "save_draw" -> "savefig"
             [] pc = "initial_draw" -> "mainloop"
             [] OTHER -> "mainloop"
  /\ anim' = (anim \/ pc = "initial_draw")
  /\ UNCHANGED << mode, save, self_depth, self_angle, self_factor, sliders,
                  params, saved, stack, plots, emitted >>

\* ----------------------------------------------------------------- shells
\* Slider(..., valmin, valmax, valinit=v): the slider keeps v inside its range
SliderInit(v, lo, hi) == IF v < lo THEN lo ELSE IF v > hi THEN hi ELSE v

\* MatplotlibApp.run, lines 70-108, up to the first draw or the event loop
MatplotlibRun ==
  /\ pc = "run"
  /\ mode = "plt"
  /\ sliders' = [ Depth |-> SliderInit(self_depth, DepthMin, DepthMax),
                  Angle |-> SliderInit(rad2deg(self_angle), AngleMin, AngleMax),
                  Factor |-> SliderInit(self_factor, FactorMin, FactorMax) ]
  /\ IF save
       THEN /\ pc' = "save_draw"
            /\ anim' = anim
       ELSE /\ pc' = "mainloop"
            /\ anim' = TRUE
  /\ UNCHANGED << mode, save, self_depth, self_angle, self_factor, params,
                  saved, dpc, stack, plots, emitted >>

\* lines 95-96: self.draw_structures(ax, step=0)
SaveDraw ==
  /\ pc = "save_draw"
  /\ DrawStructuresBegin
  /\ UNCHANGED << mode, save, self_depth, self_angle, self_factor, sliders,
                  params, anim, saved, pc >>

\* lines 97-99: plt.savefig, print, return; main returns
SaveFig ==
  /\ pc = "savefig"
  /\ saved' = TRUE
  /\ pc' = "exited"
  /\ UNCHANGED << mode, save, self_depth, self_angle, self_factor, sliders,
                  params, anim, dpc, stack, plots, emitted >>

\* lines 87-90: update(val), called when a slider is moved to v
update(name, v) ==
  /\ pc = "mainloop"
  /\ mode = "plt"
  /\ sliders[name] # v
  /\ sliders' = [sliders EXCEPT ![name] = v]
  /\ self_depth' = sliders'.Depth
  /\ self_angle' = deg2rad(sliders'.Angle)
  /\ self_factor' = sliders'.Factor
  /\ UNCHANGED << mode, save, params, anim, saved, pc, dpc, stack, plots, emitted >>

\* TkinterApp.run, lines 117-145, up to the first draw
TkinterRun ==
  /\ pc = "run"
  /\ mode = "tk"
  /\ params' = [ Depth |-> self_depth,
                 Angle |-> rad2deg(self_angle),
                 Factor |-> self_factor ]
  /\ pc' = "initial_draw"
  /\ UNCHANGED << mode, save, self_depth, self_angle, self_factor, sliders,
                  anim, saved, dpc, stack, plots, emitted >>

\* line 146: self.draw_structures(ax, step=0)
InitialDraw ==
  /\ pc = "initial_draw"
  /\ DrawStructuresBegin
  /\ UNCHANGED << mode, save, self_depth, self_angle, self_factor, sliders,
                  params, anim, saved, pc >>

\* float(params[key].get()) stored by setattr(self, key.lower(), ...):
\* the number held by the Tk variable, as it is
TraceValue(name, v) == IF name = "Angle" THEN v * RadScale ELSE v

\* line 144: the trace callback of one Tk variable, the Scale moved to v
trace(name, v) ==
  /\ pc = "mainloop"
  /\ mode = "tk"
  /\ params[name] # v
  /\ params' = [params EXCEPT ![name] = v]
  /\ self_depth' = IF name = "Depth" THEN TraceValue(name, v) ELSE self_depth
  /\ self_angle' = IF name = "Angle" THEN TraceValue(name, v) ELSE self_angle
  /\ self_factor' = IF name = "Factor" THEN TraceValue(name, v) ELSE self_factor
  /\ UNCHANGED << mode, save, sliders, anim, saved, pc, dpc, stack, plots, emitted >>

ControlValues(name) ==
  CASE name = "Depth" -> ControlDepths
    [] name = "Angle" -> ControlAngles
    [] OTHER -> ControlFactors

SliderChanged == \E name \in ControlNames : \E v \in ControlValues(name) : update(name, v)

ScaleChanged == \E name \in ControlNames : \E v \in ControlValues(name) : trace(name, v)

\* lines 102-107 and 149-159: one frame of FuncAnimation
AnimationTick ==
  /\ pc = "mainloop"
  /\ anim
  /\ DrawStructuresBegin
  /\ pc' = "tick"
  /\ UNCHANGED << mode, save, self_depth, self_angle, self_factor, sliders,
                  params, anim, saved >>

\* plt.show() / root.mainloop() returns when the window is closed
CloseWindow ==
  /\ pc = "mainloop"
  /\ pc' = "exited"
  /\ UNCHANGED << mode, save, self_depth, self_angle, self_factor, sliders,
                  params, anim, saved, dpc, stack, plots, emitted >>

\* --------------------------------------------------------- specification
\* main() parsed the arguments and FractalTree.__init__ stored them
Init ==
  /\ mode \in CliModes
  /\ save \in BOOLEAN
  /\ self_depth \in CliDepths
  /\ \E a \in CliAngles : self_angle = deg2rad(a)
  /\ self_factor \in CliFactors
  /\ sliders = Unset
  /\ params = Unset
  /\ anim = FALSE
  /\ saved = FALSE
  /\ pc = "run"
  /\ dpc = "idle"
  /\ stack = << >>
  /\ plots = << >>
  /\ emitted = 0

Next ==
  \/ MatplotlibRun
  \/ TkinterRun
  \/ SaveDraw
  \/ SaveFig
  \/ InitialDraw
  \/ AnimationTick
  \/ SliderChanged
  \/ ScaleChanged
  \/ CloseWindow
  \/ DrawTreeBase
  \/ DrawTreeBranch
  \/ DrawTreeCallRight
  \/ DrawTreeReturn
  \/ RaiseRecursionError
  \/ DrawStructuresReturn

Spec == Init /\ [][Next]_vars


\* ------------------------------------------------------------ properties
InTraversal == dpc \in {"tree", "finish"}

Front(p) == SubSeq(p, 1, Len(p) - 1)
Last(p) == p[Len(p)]
MinLen(p, q) == IF Len(p) < Len(q) THEN Len(p) ELSE Len(q)

\* call p comes before call q in pre-order, first recursive call first
Before(p, q) ==
  \/ Len(p) < Len(q) /\ SubSeq(q, 1, Len(p)) = p
  \/ \E k \in 1 .. MinLen(p, q) :
       /\ SubSeq(p, 1, k - 1) = SubSeq(q, 1, k - 1)
       /\ p[k] = 0
       /\ q[k] = 1

\* L * factor^i in fixed point
RECURSIVE ScaledPow(_, _, _)
ScaledPow(L, factor, i) ==
  IF i = 0 THEN L ELSE (ScaledPow(L, factor, i - 1) * factor) \div FactorDen

\* C1: a top-level draw_tree call with self.depth = d >= 0 returns after
\* exactly 2^d - 1 ax.plot calls (none for d = 0), and never fails.
C1_SegmentCount ==
  /\ (dpc = "finish" /\ self_depth >= 0) => emitted = 2^self_depth - 1
  /\ pc = "crashed" => self_depth < 0

C1_Witness == dpc = "finish" /\ self_depth = 3 /\ emitted = 7

\* C2: with a negative depth a top-level draw_tree call emits no segment
\* and does not fail.
C2_NegativeDepthYieldsNothing ==
  self_depth < 0 => (emitted = 0 /\ pc # "crashed")

\* C3: segments are emitted in pre-order, first (heading + angle) child
\* first; every child segment comes after its parent's segment, has the
\* parent's depth minus one and the parent's heading plus the angle (first
\* child) or minus the angle (second child).
C3_PreOrderLeftFirst ==
  InTraversal =>
    \A i \in 1 .. Len(plots) :
      LET s == plots[i]
      IN /\ \A j \in 1 .. (i - 1) : Before(plots[j].path, s.path)
         /\ s.path # << >> =>
              \E j \in 1 .. (i - 1) :
                /\ plots[j].path = Front(s.path)
                /\ s.depth = plots[j].depth - 1
                /\ s.heading = plots[j].heading
                     + (IF Last(s.path) = 0 THEN self_angle ELSE 0 - self_angle)

C3_Witness ==
  /\ dpc = "finish"
  /\ Len(plots) = 7
  /\ self_angle = deg2rad(30)
  /\ plots[2].path = << 0 >>
  /\ plots[2].heading = HalfPi + deg2rad(30)
  /\ plots[4].path = << 0, 1 >>
  /\ plots[5].path = << 1 >>
  /\ plots[5].heading = HalfPi - deg2rad(30)

\* C4: when --save is given, in either mode, the animation loop is never
\* started.
C4_SaveNeverInteractive == save => (~anim /\ pc # "mainloop")

\* C5: at every call of draw_tree the parameters are inside the UI ranges.
C5_ParamsInUiRange ==
  dpc = "tree" =>
    /\ DepthMin <= self_depth /\ self_depth <= DepthMax
    /\ deg2rad(AngleMin) <= self_angle /\ self_angle <= deg2rad(AngleMax)
    /\ FactorMin <= self_factor /\ self_factor <= FactorMax

\* C6: the top-level segment starts at the root point (0, 0); every other
\* segment starts at the end point of the segment of the call that made
\* the recursive call.
C6_EndpointContinuity ==
  \A i \in 1 .. Len(plots) :
    LET s == plots[i]
    IN IF s.path = << >>
         THEN s.x = 0 /\ s.y = 0
         ELSE \E j \in 1 .. (i - 1) :
                /\ plots[j].path = Front(s.path)
                /\ s.x = plots[j].x2
                /\ s.y = plots[j].y2

C6_Witness ==
  /\ Len(plots) >= 3
  /\ plots[2].path = << 0 >>
  /\ plots[2].x = 0
  /\ plots[2].y = Scale
  /\ plots[3].path = << 0, 0 >>
  /\ plots[3].x = plots[2].x2
  /\ plots[3].x # 0

\* C7: within one traversal every segment has t = current_depth / maxDepth
\* with maxDepth the depth of the top-level call, so two segments of the
\* same remaining depth have the same t.
C7_ColorByDepth ==
  InTraversal =>
    /\ \A i \in 1 .. Len(plots) :
         plots[i].t = (plots[i].depth * TScale) \div plots[1].depth
    /\ \A i, j \in 1 .. Len(plots) :
         plots[i].depth = plots[j].depth => plots[i].t = plots[j].t

C7_Witness ==
  /\ InTraversal
  /\ \E i, j \in 1 .. Len(plots) :
       /\ plots[1].depth = 3
       /\ plots[i].depth = 2
       /\ plots[j].depth = 2
       /\ plots[i].x2 # plots[j].x2
       /\ plots[i].t = 666
       /\ plots[j].t = 666

\* C8: in a traversal of top-level depth d >= 1 the root segment has the
\* starting length 1 and a segment of remaining depth k, 1 <= k <= d, has
\* length 1 * factor^(d - k).
C8_LengthByDepth ==
  (InTraversal /\ plots # << >> /\ plots[1].depth >= 1) =>
    /\ plots[1].length = Scale
    /\ plots[1].y2 - plots[1].y = Scale
    /\ \A i \in 1 .. Len(plots) :
         (1 <= plots[i].depth /\ plots[i].depth <= plots[1].depth) =>
           plots[i].length
             = ScaledPow(Scale, self_factor, plots[1].depth - plots[i].depth)

\* depth 5, factor 0.7: a leaf segment of length 0.7^4 = 0.2401
C8_Witness ==
  /\ InTraversal
  /\ self_factor = 7
  /\ \E i \in 1 .. Len(plots) :
       /\ plots[1].depth = 5
       /\ plots[i].depth = 1
       /\ plots[i].length = 240100

\* C9: in both shells, a control moved in the event loop leaves the
\* generator with that control's value: the angle converted to radians,
\* depth and factor as they are.
Controls == IF mode = "plt" THEN sliders ELSE params

C9_ControlsEquivalent ==
  [][ pc = "mainloop" =>
        /\ Controls'.Angle # Controls.Angle => self_angle' = deg2rad(Controls'.Angle)
        /\ Controls'.Depth # Controls.Depth => self_depth' = Controls'.Depth
        /\ Controls'.Factor # Controls.Factor => self_factor' = Controls'.Factor
    ]_vars

\* C10: when draw_tree has returned into draw_structures, the axes hold
\* exactly the lines plotted by this draw: 2^depth - 1 of them.
C10_NoRetainedGeometry ==
  dpc = "finish" =>
    /\ Len(plots) = emitted
    /\ Len(plots) = 2^self_depth - 1
    /\ \A i \in 1 .. Len(plots) : plots[i].depth <= self_depth

C10_Witness ==
  /\ dpc = "finish"
  /\ pc = "tick"
  /\ mode = "tk"
  /\ params.Depth = 2
  /\ self_depth = 2
  /\ Len(plots) = 3

====
